---- MODULE Spec2Model ----
(***************************************************************************)
(* Model of src/app.py: the NPMplus nginx -T console.                      *)
(*                                                                         *)
(* The process-wide state is the two dictionaries CACHE (text, ts, err,    *)
(* exit_code) and PREV (text, ts).  POST /fetch runs fetch_nginx_T and     *)
(* rotates CACHE into PREV; GET /, /diff, /raw and /download read them.    *)
(* Every handler starts with _check_basic_auth.                            *)
(*                                                                         *)
(* Texts are sequences of one-character strings, so that len(), slicing,   *)
(* truthiness and splitlines() are computed as Python computes them.       *)
(* Python's None is modelled by NoTs / NoCode / NoErr in the three places  *)
(* where it occurs.                                                        *)
(***************************************************************************)
EXTENDS Integers, Sequences, FiniteSets, TLC

\* ---------------------------------------------------------------- bounds
\* longest raw output the container returns
MaxOut == 2
\* capture attempts (calls of fetch_nginx_T) in one behaviour
MaxAttempts == 2
\* downloads that call datetime.now() themselves in one behaviour
MaxNow == 1

\* ------------------------------------------------------ program constants
\* MAX_CHARS = int(os.getenv("MAX_CHARS", "5000000")): the configured cap,
\* here configured to 1 character.
MAX_CHARS == 1

\* CACHE["ts"] = None, PREV["ts"] = None: no timestamp (real ones are >= 1)
NoTs == 0
\* CACHE["exit_code"] = None (process exit codes are >= 0)
NoCode == -1
\* CACHE["err"] = None
NoErr == "None"

\* the truncation marker "\n\n[TRUNCATED: output exceeded MAX_CHARS]\n"
MARKER ==
    << "\n", "\n", "[", "T", "R", "U", "N", "C", "A", "T", "E", "D", ":", " ",
       "o", "u", "t", "p", "u", "t", " ", "e", "x", "c", "e", "e", "d", "e",
       "d", " ", "M", "A", "X", "_", "C", "H", "A", "R", "S", "]", "\n" >>

\* ------------------------------------------------------------ input sets
Alphabet == {"a", "\n"}

\* res.output.decode(...): every text of at most MaxOut characters
Outputs == UNION { [1..n -> Alphabet] : n \in 0..MaxOut }

\* getattr(res, "exit_code", 0): None (missing), 0 or a non-zero status
RawCodes == {NoCode, 0, 1}

\* str(e) of the two failures of fetch_nginx_T
MsgNotFound == "Container 'npmplus' nicht gefunden: 404"
MsgExec == "exec_run failed"

\* what the container runtime does when asked: the container is missing,
\* exec_run raises, or exec_run returns (output, exit_code)
DockerResults ==
    { [kind |-> "notfound", out |-> <<>>, rc |-> NoCode],
      [kind |-> "execerr", out |-> <<>>, rc |-> NoCode] }
    \cup [kind : {"ok"}, out : Outputs, rc : RawCodes]

\* ----------------------------------------------------------- credentials
\* BASIC_USER / BASIC_PASS as configured in the environment: none, a pair,
\* or only a user name
Configs ==
    { [user |-> <<>>, pass |-> <<>>],
      [user |-> <<"u">>, pass |-> <<"p">>],
      [user |-> <<"u">>, pass |-> <<>>] }

\* An Authorization header value: its first word ("" when the request has no
\* such header), whether a space follows that word, whether what follows the
\* space base64-decodes to UTF-8, and the decoded text.
NoHeader == [scheme |-> "", space |-> FALSE, b64ok |-> FALSE, raw |-> <<>>]

Headers ==
    { NoHeader,
      [scheme |-> "Basic", space |-> FALSE, b64ok |-> FALSE, raw |-> <<>>],
      [scheme |-> "Bearer", space |-> TRUE, b64ok |-> TRUE, raw |-> <<"u", ":", "p">>],
      [scheme |-> "basic", space |-> TRUE, b64ok |-> TRUE, raw |-> <<"u", ":", "p">>],
      [scheme |-> "Basic", space |-> TRUE, b64ok |-> TRUE, raw |-> <<"u", ":", "p">>],
      [scheme |-> "Basic", space |-> TRUE, b64ok |-> TRUE, raw |-> <<"u", ":", "x">>],
      [scheme |-> "Basic", space |-> TRUE, b64ok |-> TRUE, raw |-> <<"x", ":", "p">>],
      [scheme |-> "Basic", space |-> TRUE, b64ok |-> TRUE, raw |-> <<"u", "p">>],
      [scheme |-> "Basic", space |-> TRUE, b64ok |-> TRUE, raw |-> <<>>],
      [scheme |-> "Basic", space |-> TRUE, b64ok |-> FALSE, raw |-> <<>>] }

\* str.lower() on the scheme words that occur
Lower(w) == IF w \in {"Basic", "basic", "BASIC"} THEN "basic"
            ELSE IF w \in {"Bearer", "bearer"} THEN "bearer"
            ELSE w

\* auth.lower().startswith("basic "): the first word is "basic" in any case
\* and a space follows it
StartsWithBasic(hdr) == Lower(hdr.scheme) = "basic" /\ hdr.space

\* index of the first ":" of raw, 0 when there is none
FirstColon(raw) ==
    IF \E i \in 1..Len(raw) : raw[i] = ":"
    THEN CHOOSE i \in 1..Len(raw) :
            raw[i] = ":" /\ \A j \in 1..(i - 1) : raw[j] # ":"
    ELSE 0

\* HTTPException(status_code=..., detail=..., headers={"WWW-Authenticate": ...}):
\* the status, the detail and the value of the WWW-Authenticate header of the
\* response FastAPI sends for it
HTTPException(status_code, detail, www_authenticate) ==
    [status_code |-> status_code, detail |-> detail,
     www_authenticate |-> www_authenticate]

\* no exception: the function returned
NoException == [status_code |-> 0, detail |-> "", www_authenticate |-> ""]

\* an auth check whose 401 for a wrong user name or password has no headers
CheckAuthNoChallenge(user, pass, hdr) ==
    IF ~(user # <<>> /\ pass # <<>>) THEN NoException
    ELSE IF ~StartsWithBasic(hdr)
    THEN HTTPException(401, "Auth required", "Basic")
    ELSE IF ~hdr.b64ok \/ FirstColon(hdr.raw) = 0
    THEN HTTPException(401, "Invalid auth", "Basic")
    ELSE LET i == FirstColon(hdr.raw)
             u == SubSeq(hdr.raw, 1, i - 1)
             p == SubSeq(hdr.raw, i + 1, Len(hdr.raw))
         IN IF u # user \/ p # pass
            THEN HTTPException(401, "Invalid auth", "")
            ELSE NoException

\* _check_basic_auth with BASIC_USER = user and BASIC_PASS = pass:
\* NoException when it returns, otherwise the HTTPException it raises
_check_basic_auth(user, pass, hdr) ==
    IF ~(user # <<>> /\ pass # <<>>) THEN NoException
    ELSE IF ~StartsWithBasic(hdr)
    THEN HTTPException(401, "Auth required", "Basic")
    ELSE IF ~hdr.b64ok \/ FirstColon(hdr.raw) = 0
    THEN HTTPException(401, "Invalid auth", "Basic")
    ELSE LET i == FirstColon(hdr.raw)
             u == SubSeq(hdr.raw, 1, i - 1)
             p == SubSeq(hdr.raw, i + 1, Len(hdr.raw))
         IN IF u # user \/ p # pass
            THEN HTTPException(401, "Invalid auth", "Basic")
            ELSE NoException

\* ------------------------------------------------------- fetch_nginx_T
\* a truncation that appends no marker
TruncateNoMarker(out) ==
    IF Len(out) > MAX_CHARS THEN SubSeq(out, 1, MAX_CHARS) ELSE out

\* if len(out) > MAX_CHARS: out = out[:MAX_CHARS] + marker
Truncate(out) ==
    IF Len(out) > MAX_CHARS THEN SubSeq(out, 1, MAX_CHARS) \o MARKER ELSE out

\* an exit code taken as the runtime gives it, None included
ExitCodeRaw(rc) == rc

\* int(getattr(res, "exit_code", 0) or 0)
ExitCode(rc) == IF rc = NoCode THEN 0 ELSE rc

\* fetch_nginx_T against a runtime that behaves as d: either it raises
\* (raised, with str(e) in msg) or it returns (out, code)
fetch_nginx_T(d) ==
    IF d.kind = "notfound"
    THEN [raised |-> TRUE, msg |-> MsgNotFound, out |-> <<>>, code |-> NoCode]
    ELSE IF d.kind = "execerr"
    THEN [raised |-> TRUE, msg |-> MsgExec, out |-> <<>>, code |-> NoCode]
    ELSE [raised |-> FALSE, msg |-> NoErr, out |-> Truncate(d.out),
          code |-> ExitCode(d.rc)]

\* ------------------------------------------------------------- the state
\* The handlers are plain functions, which the framework runs on worker
\* threads: requests overlap, and the interpreter may switch threads between
\* any two statements.  Each action is one statement of one request.
VARIABLES
    cfg,        \* BASIC_USER, BASIC_PASS
    CACHE,      \* [text, ts, err, exit_code]
    PREV,       \* [text, ts]
    clock,      \* number of datetime.now() calls so far: now is clock + 1
    fet,        \* the POST /fetch requests: each worker thread's position in
                \* fetch, its locals and its response
    rd,         \* the read request: its position and the response built so far
    attempts,   \* history: calls of fetch_nginx_T so far
    last,       \* history: outcome of the capture attempt that began last
                \* and of the one that ended last
    captures,   \* history: the captures recorded, in the order of their
                \* timestamps
    overlapped  \* history: a capture attempt began while another was running

vars == <<cfg, CACHE, PREV, clock, fet, rd, attempts, last, captures, overlapped>>

\* ------------------------------------------------- fetch, by statement
\* an except branch that also drops the cached text
StoreErrDropsText(C, msg) == [C EXCEPT !.err = msg, !.text = <<>>]

\* CACHE["err"] = str(e)
StoreErr(C, msg) == [C EXCEPT !.err = msg]

\* an except branch that leaves CACHE["exit_code"] as it was
KeepCode(C) == C

\* CACHE["exit_code"] = None
StoreNoCode(C) == [C EXCEPT !.exit_code = NoCode]

\* The statements of fetch after fetch_nginx_T has returned or raised.  loc
\* holds the handler's locals (text, code, msg, and ts: the value of
\* datetime.now() once line 927 has called it); now is what datetime.now()
\* returns where the statement calls it.  Line 927 is two steps, the call
\* and the store: another thread can run between them.  The result is the
\* dictionaries and the stamp held after the statement, and the statement to
\* run next.
FetchStmt(pc, C, P, loc, now) ==
    CASE pc = "check" ->        \* if CACHE["text"]:
            [CACHE |-> C, PREV |-> P, ts |-> loc.ts,
             pc |-> IF C.text # <<>> THEN "rot_text" ELSE "st_text"]
      [] pc = "rot_text" ->     \* PREV["text"] = CACHE["text"]
            [CACHE |-> C, PREV |-> [P EXCEPT !.text = C.text], ts |-> loc.ts,
             pc |-> "rot_ts"]
      [] pc = "rot_ts" ->       \* PREV["ts"] = CACHE["ts"]
            [CACHE |-> C, PREV |-> [P EXCEPT !.ts = C.ts], ts |-> loc.ts,
             pc |-> "st_text"]
      [] pc = "st_text" ->      \* CACHE["text"] = text
            [CACHE |-> [C EXCEPT !.text = loc.text], PREV |-> P, ts |-> loc.ts,
             pc |-> "st_now"]
      [] pc = "st_now" ->       \* datetime.now(timezone.utc)
            [CACHE |-> C, PREV |-> P, ts |-> now, pc |-> "st_ts"]
      [] pc = "st_ts" ->        \* CACHE["ts"] = (the value returned)
            [CACHE |-> [C EXCEPT !.ts = loc.ts], PREV |-> P, ts |-> loc.ts,
             pc |-> "st_err"]
      [] pc = "st_err" ->       \* CACHE["err"] = None
            [CACHE |-> [C EXCEPT !.err = NoErr], PREV |-> P, ts |-> loc.ts,
             pc |-> "st_code"]
      [] pc = "st_code" ->      \* CACHE["exit_code"] = code
            [CACHE |-> [C EXCEPT !.exit_code = loc.code], PREV |-> P,
             ts |-> loc.ts, pc |-> "done"]
      [] pc = "ex_err" ->       \* CACHE["err"] = str(e)
            [CACHE |-> StoreErr(C, loc.msg), PREV |-> P, ts |-> loc.ts,
             pc |-> "ex_code"]
      [] pc = "ex_code" ->      \* CACHE["exit_code"] = None
            [CACHE |-> StoreNoCode(C), PREV |-> P, ts |-> loc.ts, pc |-> "done"]

\* the statements from pc to the return, run without interruption
RECURSIVE RunFetch(_, _, _, _, _)
RunFetch(pc, C, P, loc, now) ==
    IF pc = "done" THEN [CACHE |-> C, PREV |-> P]
    ELSE LET s == FetchStmt(pc, C, P, loc, now)
         IN RunFetch(s.pc, s.CACHE, s.PREV, [loc EXCEPT !.ts = s.ts], now)

\* the try body of fetch after fetch_nginx_T has returned (text, code), with
\* datetime.now() = now, when no other request runs meanwhile
FetchStore(C, P, text, code, now) ==
    RunFetch("check", C, P,
             [text |-> text, code |-> code, msg |-> NoErr, ts |-> NoTs], now)

\* ------------------------------------------------------------- responses
\* What a response carries: the status and detail, the value of its
\* WWW-Authenticate header ("" when it has none), and the values the handler
\* took from CACHE and PREV (status 0: not yet returned).
NoResp ==
    [ep |-> "none", status |-> 0, detail |-> "", www_authenticate |-> "",
     text |-> <<>>, ts |-> NoTs,
     ts_human |-> NoTs, has |-> FALSE, err |-> "", exit_code |-> NoCode,
     old |-> <<>>, new |-> <<>>, old_ts |-> NoTs, new_ts |-> NoTs,
     body |-> <<>>]

\* the response to a request whose auth check raised exc: the status, the
\* detail and the headers of the HTTPException
Unauthorized(ep, exc) ==
    [NoResp EXCEPT !.ep = ep, !.status = exc.status_code, !.detail = exc.detail,
                   !.www_authenticate = exc.www_authenticate]

\* str.splitlines() for texts whose only line boundary is "\n"
RECURSIVE SplitFrom(_, _, _)
SplitFrom(t, i, line) ==
    IF i > Len(t) THEN (IF line = <<>> THEN <<>> ELSE <<line>>)
    ELSE IF t[i] = "\n" THEN <<line>> \o SplitFrom(t, i + 1, <<>>)
    ELSE SplitFrom(t, i + 1, Append(line, t[i]))

splitlines(t) == SplitFrom(t, 1, <<>>)

\* ------------------------------------------------ difflib.unified_diff
\* Lines are sequences of characters; a and b are sequences of lines.
\* Positions are Python's: 0-based, ranges half-open.

\* context lines around a change (unified_diff's default n)
ContextLines == 3

\* a[i:i+k] == b[j:j+k]
SameRun(a, b, i, j, k) == \A d \in 1..k : a[i + d] = b[j + d]

\* SequenceMatcher.find_longest_match(alo, ahi, blo, bhi) without junk: the
\* longest common run, the one starting earliest in a, then earliest in b;
\* <<alo, blo, 0>> when no line is common
find_longest_match(a, b, alo, ahi, blo, bhi) ==
    LET runs == { m \in (alo..(ahi - 1)) \X (blo..(bhi - 1)) \X (1..(ahi - alo)) :
                    /\ m[1] + m[3] <= ahi
                    /\ m[2] + m[3] <= bhi
                    /\ SameRun(a, b, m[1], m[2], m[3]) }
        Better(m, o) ==
            \/ m[3] > o[3]
            \/ m[3] = o[3] /\ m[1] < o[1]
            \/ m[3] = o[3] /\ m[1] = o[1] /\ m[2] < o[2]
    IN IF runs = {} THEN <<alo, blo, 0>>
       ELSE CHOOSE m \in runs : \A o \in runs \ {m} : Better(m, o)

\* SequenceMatcher.get_matching_blocks, without the closing (la, lb, 0)
RECURSIVE MatchingBlocks(_, _, _, _, _, _)
MatchingBlocks(a, b, alo, ahi, blo, bhi) ==
    LET m == find_longest_match(a, b, alo, ahi, blo, bhi) IN
    IF m[3] = 0 THEN <<>>
    ELSE MatchingBlocks(a, b, alo, m[1], blo, m[2])
         \o <<m>>
         \o MatchingBlocks(a, b, m[1] + m[3], ahi, m[2] + m[3], bhi)

\* SequenceMatcher.get_opcodes over the blocks from index x on, with i and j
\* the positions reached in a and b
RECURSIVE OpcodesFrom(_, _, _, _)
OpcodesFrom(blocks, x, i, j) ==
    IF x > Len(blocks) THEN <<>>
    ELSE LET ai == blocks[x][1]
             bj == blocks[x][2]
             size == blocks[x][3]
             tag == IF i < ai /\ j < bj THEN "replace"
                    ELSE IF i < ai THEN "delete"
                    ELSE IF j < bj THEN "insert"
                    ELSE ""
             change == IF tag = "" THEN <<>>
                       ELSE << [tag |-> tag, i1 |-> i, i2 |-> ai, j1 |-> j, j2 |-> bj] >>
             equal == IF size = 0 THEN <<>>
                      ELSE << [tag |-> "equal", i1 |-> ai, i2 |-> ai + size,
                               j1 |-> bj, j2 |-> bj + size] >>
         IN change \o equal \o OpcodesFrom(blocks, x + 1, ai + size, bj + size)

get_opcodes(a, b) ==
    OpcodesFrom(MatchingBlocks(a, b, 0, Len(a), 0, Len(b))
                    \o << <<Len(a), Len(b), 0>> >>, 1, 0, 0)

Max(x, y) == IF x > y THEN x ELSE y
Min(x, y) == IF x < y THEN x ELSE y

\* get_grouped_opcodes: an empty list of opcodes stands for one equal line
OrOneEqual(codes) ==
    IF codes = <<>>
    THEN << [tag |-> "equal", i1 |-> 0, i2 |-> 1, j1 |-> 0, j2 |-> 1] >>
    ELSE codes

\* get_grouped_opcodes: a leading equal run keeps its last n lines
TrimFirst(codes, n) ==
    IF codes[1].tag = "equal"
    THEN [codes EXCEPT ![1].i1 = Max(@, codes[1].i2 - n),
                       ![1].j1 = Max(@, codes[1].j2 - n)]
    ELSE codes

\* get_grouped_opcodes: a trailing equal run keeps its first n lines
TrimLast(codes, n) ==
    IF codes[Len(codes)].tag = "equal"
    THEN [codes EXCEPT ![Len(codes)].i2 = Min(@, codes[Len(codes)].i1 + n),
                       ![Len(codes)].j2 = Min(@, codes[Len(codes)].j1 + n)]
    ELSE codes

\* get_grouped_opcodes: a group that is one equal run is not yielded
Yielded(group) ==
    IF Len(group) = 1 /\ group[1].tag = "equal" THEN <<>> ELSE <<group>>

\* SequenceMatcher.get_grouped_opcodes(n): the leading and trailing equal
\* runs are cut to n lines, and a group that is one equal run is dropped.
\* A new group starts only at an equal run of more than 2 * n lines, which
\* texts of at most 2 * n lines do not have, so there is at most one group.
get_grouped_opcodes(a, b, n) ==
    Yielded(TrimLast(TrimFirst(OrOneEqual(get_opcodes(a, b)), n), n))

\* one line of the diff: a file header ("---" or "+++", with the timestamp
\* that labels the side), a hunk header ("@@", with the two ranges as
\* _format_range_unified gives them), or a context, removed or added line
DiffLine(tag, text, ts, r1, r2) ==
    [tag |-> tag, text |-> text, ts |-> ts, r1 |-> r1, r2 |-> r2]

\* _format_range_unified(start, stop): <<beginning, length>>
FormatRange(start, stop) ==
    IF stop - start = 0 THEN <<start, 0>> ELSE <<start + 1, stop - start>>

\* the lines a[i1:i2], each with the prefix tag
RECURSIVE Prefixed(_, _, _, _)
Prefixed(tag, a, i1, i2) ==
    IF i1 >= i2 THEN <<>>
    ELSE <<DiffLine(tag, a[i1 + 1], NoTs, <<>>, <<>>)>> \o Prefixed(tag, a, i1 + 1, i2)

\* the lines of the opcodes of one group, from index x on
RECURSIVE GroupLines(_, _, _, _)
GroupLines(a, b, group, x) ==
    IF x > Len(group) THEN <<>>
    ELSE LET c == group[x]
             here == IF c.tag = "equal" THEN Prefixed(" ", a, c.i1, c.i2)
                     ELSE (IF c.tag \in {"replace", "delete"}
                           THEN Prefixed("-", a, c.i1, c.i2) ELSE <<>>)
                          \o (IF c.tag \in {"replace", "insert"}
                              THEN Prefixed("+", b, c.j1, c.j2) ELSE <<>>)
         IN here \o GroupLines(a, b, group, x + 1)

\* a unified_diff that writes the file header before looking for changes
UnifiedDiffAlwaysHeader(a, b, fromts, tots) ==
    << DiffLine("---", <<>>, fromts, <<>>, <<>>),
       DiffLine("+++", <<>>, tots, <<>>, <<>>) >>

\* difflib.unified_diff(a, b, fromfile="prev (fromts)", tofile="curr (tots)",
\* lineterm=""): nothing when no group, else the two file headers and, for
\* the group, its hunk header and lines
unified_diff(a, b, fromts, tots) ==
    LET groups == get_grouped_opcodes(a, b, ContextLines) IN
    IF groups = <<>> THEN <<>>
    ELSE LET g == groups[1] IN
         << DiffLine("---", <<>>, fromts, <<>>, <<>>),
            DiffLine("+++", <<>>, tots, <<>>, <<>>),
            DiffLine("@@", <<>>, NoTs, FormatRange(g[1].i1, g[Len(g)].i2),
                     FormatRange(g[1].j1, g[Len(g)].j2)) >>
         \o GroupLines(a, b, g, 1)

ReadEndpoints == {"index", "diff", "raw", "download"}

NoneYet == "No config cached yet. POST /fetch first."
NoPrevious == "No previous snapshot. Click Fetch at least twice."

\* Statement k of the read handler ep after its auth check: pg is the
\* response as built so far, and the handler has returned once its status
\* is set.
ReadStmt(ep, k, pg, C, P, now) ==
    CASE ep = "index" /\ k = 1 ->       \* ts_iso
            [pg EXCEPT !.ts = C.ts]
      [] ep = "index" /\ k = 2 ->       \* ts_human
            [pg EXCEPT !.ts_human = C.ts]
      [] ep = "index" /\ k = 3 ->       \* err = CACHE["err"] or ""
            [pg EXCEPT !.err = IF C.err = NoErr THEN "" ELSE C.err]
      [] ep = "index" /\ k = 4 ->       \* exit_code = CACHE["exit_code"]
            [pg EXCEPT !.exit_code = C.exit_code]
      [] ep = "index" /\ k = 5 ->       \* has = bool(CACHE["text"])
            [pg EXCEPT !.has = (C.text # <<>>)]
      [] ep = "index" /\ k = 6 ->       \* config_text, and the page
            [pg EXCEPT !.text = IF pg.has THEN C.text ELSE <<>>, !.status = 200]
      [] ep = "diff" /\ k = 1 ->        \* if not PREV["text"]: 404
            IF P.text = <<>>
            THEN [pg EXCEPT !.status = 404, !.detail = NoPrevious]
            ELSE pg
      [] ep = "diff" /\ k = 2 ->        \* old = PREV["text"].splitlines()
            [pg EXCEPT !.old = splitlines(P.text)]
      [] ep = "diff" /\ k = 3 ->        \* new = (CACHE["text"] or "").splitlines()
            [pg EXCEPT !.new = splitlines(C.text)]
      [] ep = "diff" /\ k = 4 ->        \* old_ts
            [pg EXCEPT !.old_ts = P.ts]
      [] ep = "diff" /\ k = 5 ->        \* new_ts, and the diff of old and new
            [pg EXCEPT !.new_ts = C.ts, !.status = 200,
                       !.body = unified_diff(pg.old, pg.new, pg.old_ts, C.ts)]
      [] ep = "raw" /\ k = 1 ->         \* if not CACHE["text"]: 404
            IF C.text = <<>>
            THEN [pg EXCEPT !.status = 404, !.detail = NoneYet]
            ELSE pg
      [] ep = "raw" /\ k = 2 ->         \* return PlainTextResponse(CACHE["text"])
            [pg EXCEPT !.text = C.text, !.status = 200]
      [] ep = "download" /\ k = 1 ->    \* if not CACHE["text"]: 404
            IF C.text = <<>>
            THEN [pg EXCEPT !.status = 404, !.detail = NoneYet]
            ELSE pg
      [] ep = "download" /\ k = 2 ->    \* ts = CACHE["ts"] or datetime.now(...)
            [pg EXCEPT !.ts = IF C.ts # NoTs THEN C.ts ELSE now]
      [] ep = "download" /\ k = 3 ->    \* Response(content=CACHE["text"], ...)
            [pg EXCEPT !.text = C.text, !.status = 200]

\* the statements from k to the return, when no other request runs meanwhile
RECURSIVE RunRead(_, _, _, _, _, _)
RunRead(ep, k, pg, C, P, now) ==
    IF pg.status # 0 THEN pg
    ELSE RunRead(ep, k + 1, ReadStmt(ep, k, pg, C, P, now), C, P, now)

\* the body of diff after the auth check
DiffResponse(C, P) ==
    RunRead("diff", 1, [NoResp EXCEPT !.ep = "diff"], C, P, NoTs)

\* the body of raw after the auth check
RawResponse(C) ==
    RunRead("raw", 1, [NoResp EXCEPT !.ep = "raw"], C, C, NoTs)

\* the body of download after the auth check, with datetime.now() = now
DownloadResponse(C, now) ==
    RunRead("download", 1, [NoResp EXCEPT !.ep = "download"], C, C, now)

\* ---------------------------------------------------------------- Init
\* CACHE and PREV as the module creates them
InitCACHE == [text |-> <<>>, ts |-> NoTs, err |-> NoErr, exit_code |-> NoCode]

InitPREV == [text |-> <<>>, ts |-> NoTs]

\* the worker threads that run POST /fetch requests
Fetchers == {1, 2}

\* the runs the container gives in the behaviours explored: the container
\* is missing, exec_run raises, an empty output without exit status, a short
\* output with status 0, or an output over the cap with status 1
Runs ==
    { d \in DockerResults :
        d.kind = "ok" =>
            /\ (d.rc = NoCode) <=> (d.out = <<>>)
            /\ (d.rc = 1) <=> (Len(d.out) > MAX_CHARS) }

\* no call of fetch_nginx_T
NoRun == [kind |-> "none", out |-> <<>>, rc |-> NoCode]

\* a thread that has not taken a request: no header read, no response (its
\* status, detail and WWW-Authenticate header), no result of fetch_nginx_T,
\* no timestamp taken
IdleFetcher ==
    [pc |-> "idle", hdr |-> NoHeader, status |-> 0, detail |-> "",
     www_authenticate |-> "",
     run |-> NoRun, text |-> <<>>, code |-> NoCode, msg |-> NoErr, ts |-> NoTs]

\* the positions of a thread between fetch_nginx_T and the return
Running ==
    {"check", "rot_text", "rot_ts", "st_text", "st_now", "st_ts", "st_err", "st_code",
     "ex_err", "ex_code"}

\* no read request in progress
IdleReader ==
    [pc |-> "idle", k |-> 0, hdr |-> NoHeader, alone |-> FALSE, page |-> NoResp]

\* The threads are interchangeable: a POST /fetch is given to the free
\* thread with the least number.
FirstFree(t) == \A u \in Fetchers : u < t => fet[u].pc # "idle"

\* A step that touches only a request's own locals (the call of
\* fetch_nginx_T after the auth check and the binding of its result, the
\* sending of a response) can be moved next to the request's neighbouring
\* step without changing what any request reads or writes, and so can the
\* auth check of a read, which is moved next to the read's first statement.
\* Settled: no request is at such a step, which is taken before another
\* request moves.
Settled ==
    /\ \A t \in Fetchers : fet[t].pc \notin {"authed", "ran", "done", "rejected"}
    /\ rd.pc # "done"
    /\ ~(rd.pc = "run" /\ rd.k = 1)

\* no capture attempt is in progress: no thread is between its call of
\* fetch_nginx_T and its return
Quiet == \A t \in Fetchers : fet[t].pc \notin Running \cup {"ran"}

Init ==
    /\ cfg \in Configs
    /\ CACHE = InitCACHE
    /\ PREV = InitPREV
    /\ clock = 0
    /\ fet = [t \in Fetchers |-> IdleFetcher]
    /\ rd = IdleReader
    /\ attempts = 0
    /\ last = [began |-> "none", ended |-> "none"]
    /\ captures = <<>>
    /\ overlapped = FALSE

\* BASIC_USER and BASIC_PASS: the auth check is on when both are set
AuthConfigured == cfg.user # <<>> /\ cfg.pass # <<>>

\* request.headers.get("authorization", ""), which _check_basic_auth reads
\* only when the check is on
HeaderRead(hdr) == IF AuthConfigured THEN hdr ELSE NoHeader

\* ------------------------------------------------------------ POST /fetch
\* an auth check that lets the handler go on after a failed check
FetchAuthGoesOn(t, hdr) ==
    /\ fet[t].pc = "idle"
    /\ fet' = [fet EXCEPT ![t] = [@ EXCEPT !.pc = "authed", !.hdr = HeaderRead(hdr)]]
    /\ UNCHANGED <<cfg, CACHE, PREV, clock, rd, attempts, last, captures, overlapped>>

\* thread t takes a POST /fetch with Authorization header hdr:
\* _check_basic_auth(request), which returns or raises the 401 that is sent
\* with the headers of the exception
FetchAuth(t, hdr) ==
    LET a == _check_basic_auth(cfg.user, cfg.pass, hdr) IN
    /\ fet[t].pc = "idle"
    /\ fet' = [fet EXCEPT ![t] =
                IF a # NoException
                THEN [@ EXCEPT !.pc = "rejected", !.hdr = HeaderRead(hdr),
                               !.status = a.status_code, !.detail = a.detail,
                               !.www_authenticate = a.www_authenticate]
                ELSE [@ EXCEPT !.pc = "authed", !.hdr = HeaderRead(hdr)]]
    /\ UNCHANGED <<cfg, CACHE, PREV, clock, rd, attempts, last, captures, overlapped>>

\* thread t calls fetch_nginx_T(), and the runtime behaves as d
FetchRun(t, d) ==
    /\ fet[t].pc = "authed"
    /\ attempts < MaxAttempts
    /\ fet' = [fet EXCEPT ![t] = [@ EXCEPT !.pc = "ran", !.hdr = NoHeader, !.run = d]]
    /\ attempts' = attempts + 1
    /\ last' = [last EXCEPT !.began = IF d.kind = "ok" THEN "ok" ELSE "fail"]
    /\ overlapped' = (overlapped \/ \E u \in Fetchers \ {t} : fet[u].pc \in Running)
    /\ UNCHANGED <<cfg, CACHE, PREV, clock, rd, captures>>

\* text, code = fetch_nginx_T(): the call returns and the thread goes on in
\* the try body, or it raises and the thread goes on in the except branch
FetchBind(t) ==
    LET r == fetch_nginx_T(fet[t].run) IN
    /\ fet[t].pc = "ran"
    /\ fet' = [fet EXCEPT ![t] =
                [@ EXCEPT !.pc = IF r.raised THEN "ex_err" ELSE "check",
                          !.run = NoRun,
                          !.text = r.out, !.code = r.code, !.msg = r.msg]]
    /\ UNCHANGED <<cfg, CACHE, PREV, clock, rd, attempts, last, captures, overlapped>>

\* thread t runs its next statement of fetch; the last one is followed by
\* the RedirectResponse
FetchStep(t) ==
    LET s == FetchStmt(fet[t].pc, CACHE, PREV, fet[t], clock + 1)
        stamps == fet[t].pc = "st_now"
    IN
    /\ fet[t].pc \in Running
    /\ CACHE' = s.CACHE
    /\ PREV' = s.PREV
    /\ clock' = IF stamps THEN clock + 1 ELSE clock
    /\ captures' = IF stamps
                   THEN Append(captures, [text |-> fet[t].text, ts |-> clock + 1,
                                          exit_code |-> fet[t].code])
                   ELSE captures
    /\ fet' = [fet EXCEPT ![t] =
                [@ EXCEPT !.pc = s.pc,
                          !.ts = s.ts,
                          !.status = IF s.pc = "done" THEN 303 ELSE 0]]
    /\ last' = IF s.pc = "done"
               THEN [last EXCEPT !.ended = IF fet[t].msg # NoErr THEN "fail" ELSE "ok"]
               ELSE last
    /\ rd' = IF rd.pc = "run" /\ (s.CACHE # CACHE \/ s.PREV # PREV)
             THEN [rd EXCEPT !.alone = FALSE]
             ELSE rd
    /\ UNCHANGED <<cfg, attempts, overlapped>>

\* the response of thread t is sent and the thread is free again
FetchReturn(t) ==
    /\ fet[t].pc \in {"done", "rejected"}
    /\ fet' = [fet EXCEPT ![t] = IdleFetcher]
    /\ UNCHANGED <<cfg, CACHE, PREV, clock, rd, attempts, last, captures, overlapped>>

\* ---------------------------------------------------- the read endpoints
\* a read request is taken: _check_basic_auth(request)
ReadCall(ep, hdr) ==
    LET a == _check_basic_auth(cfg.user, cfg.pass, hdr) IN
    /\ rd.pc = "idle"
    /\ rd' = IF a # NoException
             THEN [pc |-> "done", k |-> 0, hdr |-> HeaderRead(hdr), alone |-> FALSE,
                   page |-> Unauthorized(ep, a)]
             ELSE [pc |-> "run", k |-> 1, hdr |-> HeaderRead(hdr), alone |-> Quiet,
                   page |-> [NoResp EXCEPT !.ep = ep]]
    /\ UNCHANGED <<cfg, CACHE, PREV, clock, fet, attempts, last, captures, overlapped>>

\* a read statement that also clears Last-error once the page has shown it
ReadStepClearsErr ==
    LET pg == ReadStmt(rd.page.ep, rd.k, rd.page, CACHE, PREV, clock + 1)
        calledNow == rd.page.ep = "download" /\ rd.k = 2 /\ CACHE.ts = NoTs
    IN
    /\ rd.pc = "run"
    /\ calledNow => clock - Len(captures) < MaxNow
    /\ rd' = [pc |-> IF pg.status # 0 THEN "done" ELSE "run",
              k |-> rd.k + 1, hdr |-> NoHeader, alone |-> rd.alone, page |-> pg]
    /\ clock' = IF calledNow THEN clock + 1 ELSE clock
    /\ CACHE' = IF rd.page.ep = "index" /\ rd.k = 3
                THEN [CACHE EXCEPT !.err = NoErr] ELSE CACHE
    /\ UNCHANGED <<cfg, PREV, fet, attempts, last, captures, overlapped>>

\* the read request runs its next statement; download calls datetime.now()
\* when CACHE["ts"] is None (clock - Len(captures) such calls were made)
ReadStep ==
    LET pg == ReadStmt(rd.page.ep, rd.k, rd.page, CACHE, PREV, clock + 1)
        calledNow == rd.page.ep = "download" /\ rd.k = 2 /\ CACHE.ts = NoTs
    IN
    /\ rd.pc = "run"
    /\ calledNow => clock - Len(captures) < MaxNow
    /\ rd' = [pc |-> IF pg.status # 0 THEN "done" ELSE "run",
              k |-> rd.k + 1, hdr |-> NoHeader, alone |-> rd.alone, page |-> pg]
    /\ clock' = IF calledNow THEN clock + 1 ELSE clock
    /\ UNCHANGED <<cfg, CACHE, PREV, fet, attempts, last, captures, overlapped>>

\* the response of the read request is sent
ReadReturn ==
    /\ rd.pc = "done"
    /\ rd' = IdleReader
    /\ UNCHANGED <<cfg, CACHE, PREV, clock, fet, attempts, last, captures, overlapped>>

\* the auth check turns the request with header hdr away
Rejects(hdr) == _check_basic_auth(cfg.user, cfg.pass, hdr) # NoException

\* The interleavings explored: the statements of the requests in progress in
\* every order.  A request is taken when the requests in progress are
\* Settled, a POST /fetch by the first free thread.
FetchAdmitted(t) ==
    /\ fet[t].pc = "idle"
    /\ FirstFree(t)
    /\ Settled

ReadAdmitted ==
    /\ rd.pc = "idle"
    /\ Settled

\* no request is in progress
Idle == rd.pc = "idle" /\ \A t \in Fetchers : fet[t].pc = "idle"

\* A request that the auth check turns away reads nothing but the
\* configuration and its own header and writes nothing: its two steps can be
\* moved to where no other request is in progress without changing any
\* response, and it is taken there.  A POST /fetch that passes the auth
\* check is taken while fewer than MaxAttempts captures have begun.
HeaderAdmitted(hdr, capture) ==
    IF Rejects(hdr) THEN Idle ELSE (capture => attempts < MaxAttempts)

Next ==
    \/ \E t \in Fetchers :
          FetchAdmitted(t) /\ \E hdr \in Headers :
                                 HeaderAdmitted(hdr, TRUE) /\ FetchAuth(t, hdr)
    \/ \E t \in Fetchers, d \in Runs : FetchRun(t, d)
    \/ \E t \in Fetchers : FetchBind(t)
    \/ \E t \in Fetchers : Settled /\ FetchStep(t)
    \/ \E t \in Fetchers : FetchReturn(t)
    \/ ReadAdmitted /\ \E ep \in ReadEndpoints, hdr \in Headers :
                           HeaderAdmitted(hdr, FALSE) /\ ReadCall(ep, hdr)
    \/ (rd.k = 1 \/ Settled) /\ ReadStep
    \/ ReadReturn

Spec == Init /\ [][Next]_vars

\* ------------------------------------------------------------ vocabulary
\* number of captures recorded so far
Recorded == Len(captures)

\* the header carries Basic credentials equal to the configured pair
Matching(hdr) ==
    /\ StartsWithBasic(hdr)
    /\ hdr.b64ok
    /\ hdr.raw = cfg.user \o <<":">> \o cfg.pass

\* the capture attempts so far ran one after the other and all have ended
Serial == Quiet /\ ~overlapped

\* the read request has its response, and no statement of a capture ran
\* between its auth check and its return
ReadAlone == rd.pc = "done" /\ rd.alone /\ Serial

\* thread t has just run the statement at pc
Ran(t, pc) == fet[t].pc = pc /\ fet'[t].pc # pc

\* --------------------------------------------------------------- claims

\* C1 (as claimed): at most two snapshots are retained, and they are the
\* most recently recorded ones: CACHE holds the last recorded capture and
\* PREV the recorded capture immediately before it (nothing when there is
\* none).  Stated for capture attempts that ran one after the other.
C1_RetainsMostRecent ==
    Serial =>
        /\ Recorded = 0 =>
              /\ CACHE.ts = NoTs /\ CACHE.text = <<>>
              /\ PREV.ts = NoTs /\ PREV.text = <<>>
        /\ Recorded >= 1 =>
              /\ CACHE.text = captures[Recorded].text
              /\ CACHE.ts = captures[Recorded].ts
        /\ Recorded = 1 => PREV.ts = NoTs /\ PREV.text = <<>>
        /\ Recorded >= 2 =>
              /\ PREV.text = captures[Recorded - 1].text
              /\ PREV.ts = captures[Recorded - 1].ts

\* C2: a capture attempt that fails records nothing and sets Last-error to
\* the failure's message: the statements it runs leave the current and the
\* previous text and timestamp as they were, and /raw, /download and /diff
\* answer after each of them as before it.
C2_FailedCaptureKeepsSnapshots ==
    [][ \A t \in Fetchers :
          /\ (Ran(t, "ran") /\ fet[t].run.kind \in {"notfound", "execerr"}) =>
                /\ fet'[t].pc = "ex_err"
                /\ fet'[t].msg = (IF fet[t].run.kind = "notfound" THEN MsgNotFound
                                  ELSE MsgExec)
          /\ Ran(t, "ex_err") => CACHE'.err = fet[t].msg /\ fet[t].msg # NoErr
          /\ (Ran(t, "ex_err") \/ Ran(t, "ex_code")) =>
                /\ CACHE'.text = CACHE.text
                /\ CACHE'.ts = CACHE.ts
                /\ PREV' = PREV
                /\ captures' = captures
                /\ clock' = clock
                /\ RawResponse(CACHE') = RawResponse(CACHE)
                /\ DownloadResponse(CACHE', clock' + 1) = DownloadResponse(CACHE, clock + 1)
                /\ DiffResponse(CACHE', PREV') = DiffResponse(CACHE, PREV) ]_vars

\* a capture has failed after one with text was recorded, and its message is
\* the Last-error
C2_Witness ==
    \E t \in Fetchers :
        /\ fet[t].pc = "done"
        /\ fet[t].msg = MsgNotFound
        /\ CACHE.err = MsgNotFound
        /\ CACHE.text # <<>>
        /\ CACHE.ts # NoTs

\* C3 (as claimed): once the capture attempts have ended, Last-error is set
\* exactly when the most recent one failed, the most recent being the one
\* that began last or the one that ended last.
C3_LastErrorIffLastFailed ==
    Quiet =>
        \/ (CACHE.err # NoErr) <=> (last.began = "fail")
        \/ (CACHE.err # NoErr) <=> (last.ended = "fail")

\* C4 (as claimed): /diff answers 404 exactly when fewer than two captures
\* have been recorded; otherwise it diffs the last two recorded captures,
\* and it never diffs a snapshot that does not exist.  Stated for a /diff
\* that no capture overlaps.
C4_DiffRefusedIffFewerThanTwo ==
    (ReadAlone /\ rd.page.ep = "diff" /\ rd.page.status # 401) =>
        /\ (rd.page.status = 404) <=> (Recorded < 2)
        /\ rd.page.status = 200 =>
              /\ Recorded >= 2
              /\ rd.page.old = splitlines(captures[Recorded - 1].text)
              /\ rd.page.old_ts = captures[Recorded - 1].ts
              /\ rd.page.new = splitlines(captures[Recorded].text)
              /\ rd.page.new_ts = captures[Recorded].ts

\* the auth check let the request with header hdr through to its handler
Passed(hdr) == AuthConfigured => Matching(hdr)

\* The auth check turned the request with header hdr away with response r:
\* credentials are configured and hdr does not carry them; r is a 401 with
\* the challenge WWW-Authenticate: Basic; its detail is "Auth required" for
\* a request with no Authorization header and "Invalid auth" for Basic
\* credentials that are wrong or malformed.
TurnedAway(hdr, r) ==
    /\ AuthConfigured
    /\ ~Matching(hdr)
    /\ r.status = 401
    /\ r.www_authenticate = "Basic"
    /\ r.detail \in {"Auth required", "Invalid auth"}
    /\ hdr = NoHeader => r.detail = "Auth required"
    /\ StartsWithBasic(hdr) => r.detail = "Invalid auth"

\* C5: with credentials configured, a handler (POST /fetch and the read
\* endpoints GET /, /diff, /raw, /download) runs only for a request whose
\* Basic credentials equal the configured pair; every other request gets a
\* 401 with the challenge WWW-Authenticate: Basic, whose detail is
\* "Auth required" when the request has no Authorization header and
\* "Invalid auth" when its Basic credentials are wrong or malformed; with no
\* credentials configured every request reaches its handler, and no other
\* response is a 401 or carries a challenge.
C5_AuthGate ==
    /\ \A t \in Fetchers :
          /\ fet[t].pc = "authed" => Passed(fet[t].hdr)
          /\ fet[t].pc = "rejected" => TurnedAway(fet[t].hdr, fet[t])
          /\ fet[t].pc # "rejected" =>
                fet[t].status # 401 /\ fet[t].www_authenticate = ""
    /\ (rd.pc = "run" /\ rd.k = 1) => Passed(rd.hdr)
    /\ (rd.pc = "done" /\ rd.k = 0) => TurnedAway(rd.hdr, rd.page)
    /\ ~(rd.pc = "done" /\ rd.k = 0) =>
          rd.page.status # 401 /\ rd.page.www_authenticate = ""

\* credentials are configured and a GET /raw with the wrong password was
\* turned away: a 401 "Invalid auth" with the Basic challenge
C5_Witness ==
    /\ AuthConfigured
    /\ rd.pc = "done"
    /\ rd.page.ep = "raw"
    /\ rd.hdr.raw = <<"u", ":", "x">>
    /\ rd.page.status = 401
    /\ rd.page.detail = "Invalid auth"
    /\ rd.page.www_authenticate = "Basic"

\* text and ts are those of one recorded capture, or of no capture at all
OneCapture(text, ts) ==
    \/ ts = NoTs /\ text = <<>>
    \/ \E i \in 1..Recorded : captures[i].ts = ts /\ captures[i].text = text

\* the same for a text seen through splitlines()
OneCaptureLines(lines, ts) ==
    \/ ts = NoTs /\ lines = <<>>
    \/ \E i \in 1..Recorded :
          captures[i].ts = ts /\ splitlines(captures[i].text) = lines

\* C6 (as claimed): a read request that overlaps POST /fetch requests sees
\* no partially constructed snapshot: the current text and timestamp in its
\* response are those of one capture (and an exit code shown with them is
\* that capture's), and so are the previous text and timestamp.
C6_NoPartialSnapshot ==
    (rd.pc = "done" /\ rd.page.status = 200) =>
        /\ rd.page.ep \in {"index", "download"} =>
              OneCapture(rd.page.text, rd.page.ts)
        /\ rd.page.ep = "index" =>
              /\ rd.page.ts_human = rd.page.ts
              /\ rd.page.exit_code # NoCode =>
                    \E i \in 1..Recorded :
                        /\ captures[i].ts = rd.page.ts
                        /\ captures[i].exit_code = rd.page.exit_code
        /\ rd.page.ep = "diff" =>
              /\ OneCaptureLines(rd.page.old, rd.page.old_ts)
              /\ OneCaptureLines(rd.page.new, rd.page.new_ts)

\* what recording capture c does to the dictionaries when nothing overlaps it
Alone(S, c) == FetchStore(S.CACHE, S.PREV, c.text, c.exit_code, c.ts)

\* C7 (as claimed): when two POST /fetch requests that both record a
\* capture have finished, CACHE and PREV are what running the two requests
\* one after the other, in one of the two orders, leaves.
C7_Serializable ==
    (Quiet /\ attempts = 2 /\ Recorded = 2) =>
        \E i \in 1..2 :
            LET s == Alone(Alone([CACHE |-> InitCACHE, PREV |-> InitPREV],
                                 captures[i]), captures[3 - i])
            IN CACHE = s.CACHE /\ PREV = s.PREV

\* C8 (as claimed): a retained snapshot keeps the text, timestamp and exit
\* code stored at its capture: while CACHE holds the capture with a given
\* timestamp, its text and exit code do not change, and PREV likewise.
C8_SnapshotImmutable ==
    [][ /\ (CACHE.ts # NoTs /\ CACHE'.ts = CACHE.ts) =>
              /\ CACHE'.text = CACHE.text
              /\ CACHE'.exit_code = CACHE.exit_code
        /\ (PREV.ts # NoTs /\ PREV'.ts = PREV.ts) => PREV'.text = PREV.text
        /\ (CACHE.ts # NoTs /\ PREV'.ts = CACHE.ts) => PREV'.text = CACHE.text
      ]_vars

\* C9: output longer than MAX_CHARS is stored as its first MAX_CHARS
\* characters followed by the marker (length MAX_CHARS + len(marker));
\* output of at most MAX_CHARS characters is stored unchanged.
C9_Truncation ==
    [][ \A t \in Fetchers :
          /\ (Ran(t, "ran") /\ fet[t].run.kind = "ok") =>
                LET out == fet[t].run.out
                    text == fet'[t].text
                IN IF Len(out) > MAX_CHARS
                   THEN /\ Len(text) = MAX_CHARS + Len(MARKER)
                        /\ \A i \in 1..MAX_CHARS : text[i] = out[i]
                        /\ \A i \in 1..Len(MARKER) : text[MAX_CHARS + i] = MARKER[i]
                   ELSE text = out
          /\ (fet[t].pc \in Running /\ fet'[t].pc # "idle") =>
                fet'[t].text = fet[t].text
          /\ Ran(t, "st_text") => CACHE'.text = fet[t].text
          /\ Ran(t, "st_now") => captures'[Len(captures')].text = fet[t].text ]_vars

\* an output longer than the cap has been captured and stored
C9_Witness ==
    \E t \in Fetchers :
        /\ fet[t].pc = "done"
        /\ Len(fet[t].text) = MAX_CHARS + Len(MARKER)
        /\ CACHE.text = fet[t].text

\* C10: GET /, /diff, /raw and /download leave CACHE (text, timestamp, exit
\* code, Last-error) and PREV as they were, 404 outcomes included; a step
\* that changes them is a statement of a POST /fetch.
C10_ReadsDoNotMutate ==
    [][ /\ (rd' # rd /\ fet' = fet) => (CACHE' = CACHE /\ PREV' = PREV)
        /\ (CACHE' # CACHE \/ PREV' # PREV) =>
              \E t \in Fetchers : fet[t].pc \in Running /\ fet'[t].pc # fet[t].pc
      ]_vars

\* /diff has answered 404 while a current snapshot and a Last-error exist
C10_Witness ==
    /\ rd.pc = "done"
    /\ rd.page.ep = "diff"
    /\ rd.page.status = 404
    /\ CACHE.text # <<>>
    /\ CACHE.err # NoErr

\* C12: a capture whose command exits non-zero is not a capture failure: the
\* handler takes the try body, records the capture with that exit code and
\* clears Last-error; a missing (None) exit code is recorded as 0.
C12_NonZeroExitRecorded ==
    [][ \A t \in Fetchers :
          /\ (Ran(t, "ran") /\ fet[t].run.kind = "ok") =>
                /\ fet'[t].pc = "check"
                /\ fet'[t].msg = NoErr
                /\ fet'[t].code = (IF fet[t].run.rc = NoCode THEN 0
                                   ELSE fet[t].run.rc)
          /\ (fet[t].pc \in Running /\ fet'[t].pc # "idle") =>
                fet'[t].code = fet[t].code
          /\ Ran(t, "st_now") =>
                captures' = Append(captures, [text |-> fet[t].text,
                                              ts |-> fet'[t].ts,
                                              exit_code |-> fet[t].code])
          /\ Ran(t, "st_ts") => CACHE'.ts = fet[t].ts
          /\ Ran(t, "st_err") => CACHE'.err = NoErr
          /\ Ran(t, "st_code") =>
                /\ CACHE'.exit_code = fet[t].code
                /\ fet'[t].pc = "done"
                /\ fet'[t].status = 303 ]_vars

\* after a failed attempt, a capture whose command exited with 1 has been
\* recorded with exit code 1 and no Last-error
C12_Witness ==
    \E t \in Fetchers :
        /\ fet[t].pc = "done"
        /\ fet[t].code = 1
        /\ attempts = 2
        /\ Recorded = 1
        /\ captures[1].exit_code = 1
        /\ CACHE.exit_code = 1
        /\ CACHE.err = NoErr

\* C13 (as claimed): /raw and /download return the current snapshot's full
\* text whenever a capture has been recorded, and the none-yet 404 only
\* when none has; both return the same text for the same state.  Stated for
\* a read that no capture overlaps.
C13_RawAndDownload ==
    /\ (ReadAlone /\ rd.page.ep \in {"raw", "download"} /\ rd.page.status # 401) =>
          /\ (rd.page.status = 404) <=> (Recorded = 0)
          /\ rd.page.status = 404 => rd.page.detail = NoneYet
          /\ rd.page.status = 200 => rd.page.text = CACHE.text
    /\ RawResponse(CACHE).status = DownloadResponse(CACHE, clock + 1).status
    /\ RawResponse(CACHE).text = DownloadResponse(CACHE, clock + 1).text

\* C14: the diff of two identical texts is empty: when the two texts /diff
\* has read are the same (as they are when PREV and CACHE hold the same
\* text and no capture overlaps the request), the diff it returns has no
\* file header, no hunk and no '-' or '+' line.
C14_IdenticalTextsEmptyDiff ==
    (rd.pc = "done" /\ rd.page.ep = "diff" /\ rd.page.status = 200) =>
        /\ (ReadAlone /\ PREV.text = CACHE.text) => rd.page.old = rd.page.new
        /\ rd.page.old = rd.page.new =>
              /\ rd.page.body = <<>>
              /\ \A x \in 1..Len(rd.page.body) :
                    rd.page.body[x].tag \notin {"---", "+++", "@@", "-", "+"}

\* the same truncated output was captured twice and /diff has answered
C14_Witness ==
    /\ ReadAlone
    /\ rd.page.ep = "diff"
    /\ rd.page.status = 200
    /\ PREV.text = CACHE.text
    /\ Len(CACHE.text) > MAX_CHARS
    /\ PREV.ts # CACHE.ts
    /\ rd.page.body = <<>>

\* C15: with credentials configured, a POST /fetch whose credentials are
\* missing or wrong gets a 401 and nothing else happens: fetch_nginx_T is
\* not called and CACHE (text, timestamp, exit code, Last-error) and PREV
\* are unchanged.
C15_RejectedFetchChangesNothing ==
    [][ \A t \in Fetchers :
          /\ (Ran(t, "idle") /\ AuthConfigured /\ ~Matching(fet'[t].hdr)) =>
                fet'[t].pc = "rejected" /\ fet'[t].status = 401
          /\ (Ran(t, "idle") /\ fet'[t].pc = "rejected") =>
                AuthConfigured /\ ~Matching(fet'[t].hdr)
          /\ Ran(t, "rejected") => fet'[t].pc = "idle"
          /\ (Ran(t, "idle") \/ Ran(t, "rejected")) =>
                /\ attempts' = attempts
                /\ clock' = clock
                /\ CACHE' = CACHE
                /\ PREV' = PREV
                /\ captures' = captures ]_vars

\* a POST /fetch with a wrong password was turned away while a snapshot is
\* cached and a capture could still have run
C15_Witness ==
    \E t \in Fetchers :
        /\ AuthConfigured
        /\ fet[t].pc = "rejected"
        /\ fet[t].hdr.raw = <<"u", ":", "x">>
        /\ fet[t].status = 401
        /\ CACHE.text # <<>>
        /\ attempts < MaxAttempts

\* C16: over non-overlapping capture attempts, Last-error and the exit code
\* are never both present, and after at least one attempt exactly one of
\* them is.
C16_ErrorXorExitCode ==
    Serial =>
        /\ ~(CACHE.err # NoErr /\ CACHE.exit_code # NoCode)
        /\ attempts >= 1 => (CACHE.err # NoErr \/ CACHE.exit_code # NoCode)
        /\ attempts = 0 => (CACHE.err = NoErr /\ CACHE.exit_code = NoCode)

\* a capture was recorded with an exit code, and a later attempt failed:
\* Last-error is set and the exit code is gone
C16_Witness ==
    /\ Serial
    /\ attempts >= 2
    /\ CACHE.ts # NoTs
    /\ CACHE.err # NoErr
    /\ CACHE.exit_code = NoCode

====
